---- MODULE Spec2Model ----
(***************************************************************************)
(* ssm-ssh-connect (src/main.go): several invocations of the program run   *)
(* concurrently against one file system.  Each invocation loads the        *)
(* identity cache, resolves the instance on a miss, writes the cache,      *)
(* tries to take the key-push lock file, pushes the public key when it     *)
(* took the lock, and then starts the session helper.                      *)
(*                                                                         *)
(* Time is counted in seconds.  Every system call of main() that another   *)
(* process can interleave with is one action.  A process that is gone      *)
(* keeps no state, and of its history only what its bootstrap returned:    *)
(* what it did is checked while it runs.                                   *)
(***************************************************************************)
EXTENDS Integers, Sequences, FiniteSets, TLC

(***************************************************************************)
(* Program constants.                                                      *)
(***************************************************************************)
LockTimeout == 50
CacheTTL == 86400
JsonOverhead == 47

(***************************************************************************)
(* Bounds of the model.                                                    *)
(***************************************************************************)
\* most instances one reply of the directory service lists
MaxReplyLen == 2

\* the invocations of one behaviour, by pid
Procs == {1, 2}

\* the instants at which something happens: the clock starts at 0 and moves
\* from one of them to a later one
Instants == {0, 1, LockTimeout, LockTimeout + 1}

AppHome == "~/.ssm-ssh-connect"

\* the signals shutdown() is notified of, and those that end the process
Signals == {"SIGINT", "SIGTERM", "SIGHUP"}
Fatal == {"SIGINT", "SIGTERM"}
NoSignal == ""

\* command lines (os.Args[1..3]); the first two differ only in where the
\* '-' of the profile and the instance name falls
K1 == [AwsProfile |-> "a",   InstanceName |-> "b-c", InstanceUser |-> "u"]
K2 == [AwsProfile |-> "a-b", InstanceName |-> "c",   InstanceUser |-> "u"]
K3 == [AwsProfile |-> "a",   InstanceName |-> "c",   InstanceUser |-> "u"]
Keys == {K1, K2, K3}

\* instances the directory service may report
I1 == [InstanceId |-> "i-1",  AvailabilityZone |-> "us-east-1a"]
I2 == [InstanceId |-> "i-22", AvailabilityZone |-> "eu-west-3b"]
Instances == {I1, I2}

\* replies of DescribeInstances: a transport error, or the instances of the
\* reservations in the order the service lists them
Reply(ok, is) == [ok |-> ok, instances |-> is]
DirectoryReplies(is) ==
  { Reply(FALSE, <<>>) }
    \cup { Reply(TRUE, l) : l \in UNION { [1..n -> is] : n \in 0..MaxReplyLen } }

VARIABLES
  env,        \* the world of this behaviour: command lines used, instances,
              \* the instants of the clock
  now,        \* wall clock, seconds
  fs,         \* the application directory: path -> file
  pc,         \* per process: where main() is
  cfg,        \* per process: the global Config
  lockHeld,   \* per process: the deferred release is registered
  timer,      \* per process: deadline of the 50 s goroutine, -1 when none
  sig,        \* per process: the signal waiting in the channel of shutdown()
  hist        \* per process: what it has done (history, not program state)

vars == <<env, now, fs, pc, cfg, lockHeld, timer, sig, hist>>

(***************************************************************************)
(* Files.                                                                  *)
(***************************************************************************)
NoDoc == [region |-> "", instance_id |-> "", instance_az |-> ""]

\* content of a file: empty, one JSON document, or bytes that do not parse
EmptyContent == [kind |-> "empty", doc |-> NoDoc, len |-> 0]
JsonContent(doc, n) == [kind |-> "json", doc |-> doc, len |-> n]
GarbageContent(n) == [kind |-> "garbage", doc |-> NoDoc, len |-> n]

\* by, key and wrote are history: the pid and the command line of the process
\* that created or last wrote the file, and the identity it held then
NoIdentity == <<"", "", "">>
NoFile == [exists |-> FALSE, mtime |-> 0, content |-> EmptyContent, by |-> 0,
           key |-> <<>>, wrote |-> NoIdentity]
File(t, c, p, k, w) == [exists |-> TRUE, mtime |-> t, content |-> c, by |-> p,
                        key |-> k, wrote |-> w]

KeyOf(c) == <<c.AwsProfile, c.InstanceName, c.InstanceUser>>
IdentityOf(c) == <<c.Region, c.InstanceID, c.InstanceAZ>>

CacheFileName(c) ==
  AppHome \o "/" \o c.AwsProfile \o "-" \o c.InstanceName \o "-"
          \o c.InstanceUser \o ".json"

LockFileName(c) ==
  AppHome \o "/" \o c.AwsProfile \o "-" \o c.InstanceName \o "-"
          \o c.InstanceUser \o ".lock"

Paths == { CacheFileName(k) : k \in Keys } \cup { LockFileName(k) : k \in Keys }

Since(t) == now - t

(***************************************************************************)
(* Config and its JSON form.                                               *)
(***************************************************************************)
ZeroConfig ==
  [AwsProfile |-> "", InstanceName |-> "", InstanceUser |-> "",
   Region |-> "", InstanceID |-> "", InstanceAZ |-> ""]

\* (mutant) the tags of Region and InstanceAZ exchanged
MarshalSwapped(c) ==
  [region |-> c.InstanceAZ, instance_id |-> c.InstanceID, instance_az |-> c.Region]

\* json.Marshal(cfg): only the fields that are not tagged "-"
Marshal(c) ==
  [region |-> c.Region, instance_id |-> c.InstanceID, instance_az |-> c.InstanceAZ]

MarshalLen(c) == JsonOverhead + Len(c.Region) + Len(c.InstanceID) + Len(c.InstanceAZ)

\* json.Unmarshal(data, cfg): the document's fields are stored, the other
\* fields of cfg keep their values
Unmarshal(doc, c) ==
  [c EXCEPT !.Region = doc.region, !.InstanceID = doc.instance_id,
            !.InstanceAZ = doc.instance_az]

(***************************************************************************)
(* loadCache, saveCache, getInstanceDetails.                               *)
(***************************************************************************)
\* (mutant) a ttl of two days
CacheExpiredLate(f) == Since(f.mtime) > 2 * CacheTTL

\* the ttl test of loadCache
CacheExpired(f) == Since(f.mtime) > CacheTTL

\* (mutant) loadCache without the ttl test
loadCacheAnyAge(c, readOk) ==
  LET f == fs[CacheFileName(c)] IN
  IF ~f.exists \/ ~readOk \/ f.content.kind # "json" THEN c
  ELSE Unmarshal(f.content.doc, c)

\* loadCache(&cfg): the Config after the call.  Every error return leaves
\* cfg as it was; readOk is whether os.ReadFile succeeds.
loadCache(c, readOk) ==
  LET f == fs[CacheFileName(c)] IN
  IF ~f.exists THEN c
  ELSE IF CacheExpired(f) THEN c
  ELSE IF ~readOk THEN c
  ELSE IF f.content.kind # "json" THEN c
  ELSE Unmarshal(f.content.doc, c)

\* (mutant) a hit rewrites the cache file
AfterLoadRefresh(c) == IF c.InstanceID = "" THEN "resolve" ELSE "saveOpen"

\* (mutant) a miss writes the cache file before the instance is resolved
AfterLoadSaveFirst(c) == IF c.InstanceID = "" THEN "saveOpen" ELSE "lockStat"

\* main after loadCache: resolve only when no instance id was loaded
AfterLoad(c) == IF c.InstanceID = "" THEN "resolve" ELSE "lockStat"

\* what a write of n bytes at offset 0 leaves in a file that was opened with
\* O_TRUNC and holds old: bytes another writer put there since the open stay
\* behind the new document when they are longer
Overwrite(old, doc, n) ==
  IF old.len > n THEN GarbageContent(old.len) ELSE JsonContent(doc, n)

\* (mutant) the zone taken for the region
DeriveRegionKeepsZone(az) == az

\* cfg.Region from cfg.InstanceAZ
DeriveRegion(az) == SubSeq(az, 1, Len(az) - 1)

\* getInstanceDetails(): the first instance of the reply fills cfg
getInstanceDetails(c, reply) ==
  IF ~reply.ok THEN [err |-> "service", cfg |-> c]
  ELSE IF Len(reply.instances) = 0 THEN [err |-> "notfound", cfg |-> c]
  ELSE LET i == reply.instances[1] IN
       [err |-> "",
        cfg |-> [c EXCEPT !.InstanceID = i.InstanceId,
                          !.InstanceAZ = i.AvailabilityZone,
                          !.Region = DeriveRegion(i.AvailabilityZone)]]

\* (mutant) main goes on after an error of getInstanceDetails
AfterResolveGoesOn(err) == "saveOpen"

\* main after getInstanceDetails: os.Exit(1) on an error
AfterResolve(err) == IF err = "" THEN "saveOpen" ELSE "exited"

(***************************************************************************)
(* History of one process.                                                 *)
(***************************************************************************)
NoArgs == [target |-> "", region |-> "", profile |-> "", endpoint |-> ""]

ZeroHist ==
  [key        |-> <<>>,     \* os.Args[1..3]
   stages     |-> <<>>,     \* the stages run, in order
   resolves   |-> 0,        \* DescribeInstances calls
   bootstraps |-> 0,        \* startSSMSessionWithPlugin calls
   found      |-> NoFile,   \* the cache file as loadCache found it
   foundAge   |-> "",       \* its age then: "<", "=" or ">" 24 hours
   readOk     |-> TRUE,     \* whether os.ReadFile, when called, succeeded
   loaded     |-> FALSE,    \* whether the identity was taken from it
   statSaw    |-> "",       \* the lock file os.Stat saw: "absent", or its
                            \* age: "<=" or ">" 50 seconds
   otherRemoved |-> FALSE,  \* another process removed the lock file since
   otherCreated |-> FALSE,  \* another process created the lock file since
   lock       |-> "",       \* "Acquired" or "AlreadyHeld"
   pushed     |-> "",       \* what sendSSHPublicKey returned: "nil", "error"
   result     |-> "",       \* what startSSMSessionWithPlugin returned
   lost       |-> FALSE,    \* a SIGINT or SIGTERM found a SIGHUP in the channel
   blocker    |-> <<>>,     \* AlreadyHeld: the command line of the token's creator
   args       |-> NoArgs]   \* what the helper was started with

\* what is kept of a process that is gone: what its bootstrap returned; of
\* one that left with os.Exit(1) also its command line and the cache file it
\* had found
Final(h, how) ==
  [ZeroHist EXCEPT !.result = h.result,
                   !.key = IF how = "exited" THEN h.key ELSE <<>>,
                   !.found = IF how = "exited" THEN h.found ELSE NoFile,
                   !.readOk = IF how = "exited" THEN h.readOk ELSE TRUE]

Alive(p) == pc[p] \notin {"idle", "done", "exited", "killed"}

Stage(p, s) == Append(hist[p].stages, s)

\* the processes between their os.Stat and their os.OpenFile of the lock file
Watching(p, path) ==
  { q \in Procs \ {p} : /\ pc[q] \in {"lockRemove", "lockCreate"}
                        /\ LockFileName(cfg[q]) = path }

NoteRemoved(h, p, path) ==
  [q \in Procs |-> IF q \in Watching(p, path) /\ fs[path].exists
                   THEN [h[q] EXCEPT !.otherRemoved = TRUE] ELSE h[q]]

NoteCreated(h, p, path) ==
  [q \in Procs |-> IF q \in Watching(p, path)
                   THEN [h[q] EXCEPT !.otherCreated = TRUE] ELSE h[q]]

(***************************************************************************)
(* Actions.                                                                *)
(***************************************************************************)
\* a new invocation: main() up to signal.Notify.  Pids are given out in
\* order.
Launch(p, k) ==
  /\ pc[p] = "idle"
  /\ \A q \in Procs : q < p => pc[q] # "idle"
  /\ k \in env.keys
  /\ cfg' = [cfg EXCEPT ![p] = [ZeroConfig EXCEPT !.AwsProfile = k.AwsProfile,
                                                  !.InstanceName = k.InstanceName,
                                                  !.InstanceUser = k.InstanceUser]]
  /\ lockHeld' = [lockHeld EXCEPT ![p] = FALSE]
  /\ timer' = [timer EXCEPT ![p] = -1]
  /\ sig' = [sig EXCEPT ![p] = NoSignal]
  /\ hist' = [hist EXCEPT ![p] = [ZeroHist EXCEPT !.key = KeyOf(k)]]
  /\ pc' = [pc EXCEPT ![p] = "loadCache"]
  /\ UNCHANGED <<env, now, fs>>

\* the process is gone: its goroutine with it
Gone(p, how) ==
  /\ pc' = [pc EXCEPT ![p] = how]
  /\ cfg' = [cfg EXCEPT ![p] = ZeroConfig]
  /\ lockHeld' = [lockHeld EXCEPT ![p] = FALSE]
  /\ timer' = [timer EXCEPT ![p] = -1]
  /\ sig' = [sig EXCEPT ![p] = NoSignal]

\* loadCache(&cfg) and the test of cfg.InstanceID
LoadCache(p, readOk) ==
  /\ pc[p] = "loadCache"
  /\ LET c == loadCache(cfg[p], readOk)
         f == fs[CacheFileName(cfg[p])] IN
     /\ readOk \/ (f.exists /\ ~CacheExpired(f))
     /\ cfg' = [cfg EXCEPT ![p] = c]
     /\ hist' = [hist EXCEPT ![p].stages = Stage(p, "cacheRead"),
                             ![p].found = f,
                             ![p].foundAge =
                                IF ~f.exists THEN ""
                                ELSE IF now - f.mtime < CacheTTL THEN "<"
                                ELSE IF now - f.mtime = CacheTTL THEN "=" ELSE ">",
                             ![p].readOk = readOk,
                             ![p].loaded = (c # cfg[p])]
     /\ pc' = [pc EXCEPT ![p] = AfterLoad(c)]
  /\ UNCHANGED <<env, now, fs, lockHeld, timer, sig>>

\* getInstanceDetails(); os.Exit(1) when it fails
Resolve(p, reply) ==
  /\ pc[p] = "resolve"
  /\ reply \in DirectoryReplies(env.instances)
  /\ LET r == getInstanceDetails(cfg[p], reply)
         h == [hist EXCEPT ![p].stages = Stage(p, "resolve"),
                           ![p].resolves = @ + 1] IN
     IF AfterResolve(r.err) = "exited"
     THEN /\ Gone(p, "exited")
          /\ hist' = [h EXCEPT ![p] = Final(@, "exited")]
     ELSE /\ cfg' = [cfg EXCEPT ![p] = r.cfg]
          /\ pc' = [pc EXCEPT ![p] = AfterResolve(r.err)]
          /\ hist' = h
          /\ UNCHANGED <<lockHeld, timer, sig>>
  /\ UNCHANGED <<env, now, fs>>

\* saveCache: os.WriteFile opens the file with O_CREATE|O_TRUNC ...
SaveOpen(p) ==
  /\ pc[p] = "saveOpen"
  /\ fs' = [fs EXCEPT ![CacheFileName(cfg[p])] =
              File(now, EmptyContent, p, KeyOf(cfg[p]), NoIdentity)]
  /\ pc' = [pc EXCEPT ![p] = "saveWrite"]
  /\ hist' = [hist EXCEPT ![p].stages = Stage(p, "cacheWrite")]
  /\ UNCHANGED <<env, now, cfg, lockHeld, timer, sig>>

\* ... and writes the document
SaveWrite(p) ==
  /\ pc[p] = "saveWrite"
  /\ LET path == CacheFileName(cfg[p]) IN
     fs' = [fs EXCEPT ![path] =
              File(now, Overwrite(fs[path].content, Marshal(cfg[p]), MarshalLen(cfg[p])),
                   p, KeyOf(cfg[p]), IdentityOf(cfg[p]))]
  /\ pc' = [pc EXCEPT ![p] = "lockStat"]
  /\ UNCHANGED <<env, now, cfg, lockHeld, timer, sig, hist>>

\* (mutant) the token kept for the 60 seconds the key is valid
IsStaleAtKeyExpiry(f) == f.exists /\ Since(f.mtime) > 60

\* the age test of the lock file
IsStale(f) == f.exists /\ Since(f.mtime) > LockTimeout

\* os.Stat(lockFileName) and the age test
LockStat(p) ==
  /\ pc[p] = "lockStat"
  /\ LET f == fs[LockFileName(cfg[p])] IN
     /\ hist' = [hist EXCEPT ![p].stages = Stage(p, "lockAcquire"),
                             ![p].statSaw =
                                IF ~f.exists THEN "absent"
                                ELSE IF now - f.mtime <= LockTimeout THEN "<=" ELSE ">"]
     /\ pc' = [pc EXCEPT ![p] = IF IsStale(f) THEN "lockRemove" ELSE "lockCreate"]
  /\ UNCHANGED <<env, now, fs, cfg, lockHeld, timer, sig>>

\* os.Remove(lockFileName) of the token found stale
LockRemove(p) ==
  /\ pc[p] = "lockRemove"
  /\ LET path == LockFileName(cfg[p]) IN
     /\ fs' = [fs EXCEPT ![path] = NoFile]
     /\ hist' = NoteRemoved(hist, p, path)
  /\ pc' = [pc EXCEPT ![p] = "lockCreate"]
  /\ UNCHANGED <<env, now, cfg, lockHeld, timer, sig>>

\* (mutant) the key pushed whether or not the lock file was created
AfterCreateAlwaysPush(created) == "push"

\* main after os.OpenFile(O_EXCL|O_CREATE): the key is pushed only by the
\* process that created the file
AfterCreate(created) == IF created THEN "push" ELSE "session"

\* os.OpenFile(lockFileName, O_EXCL|O_CREATE): on success the deferred
\* release is registered and the 50 s goroutine started
LockCreate(p) ==
  /\ pc[p] = "lockCreate"
  /\ LET path == LockFileName(cfg[p]) IN
     IF ~fs[path].exists
     THEN /\ fs' = [fs EXCEPT ![path] =
                       File(now, EmptyContent, p, KeyOf(cfg[p]), NoIdentity)]
          /\ lockHeld' = [lockHeld EXCEPT ![p] = TRUE]
          /\ timer' = [timer EXCEPT ![p] = now + LockTimeout]
          /\ hist' = NoteCreated([hist EXCEPT ![p].lock = "Acquired"], p, path)
          /\ pc' = [pc EXCEPT ![p] = AfterCreate(TRUE)]
     ELSE /\ hist' = [hist EXCEPT ![p].lock = "AlreadyHeld",
                                  ![p].blocker = fs[path].key]
          /\ pc' = [pc EXCEPT ![p] = AfterCreate(FALSE)]
          /\ UNCHANGED <<fs, lockHeld, timer>>
  /\ UNCHANGED <<env, now, cfg, sig>>

\* sendSSHPublicKey(): the key file may be unreadable (no call is made), the
\* call may fail; main goes on in every case
PushOutcomes == {"nokey", "ok", "failed"}

\* what sendSSHPublicKey() returns
sendSSHPublicKey(outcome) == IF outcome = "ok" THEN "nil" ELSE "error"

\* (mutant) main leaves when the key push fails
AfterPushFatal(err) == IF err = "nil" THEN "session" ELSE "exited"

\* main after sendSSHPublicKey(): an error is logged, nothing else
AfterPush(err) == "session"

SendSSHPublicKey(p, outcome) ==
  /\ pc[p] = "push"
  /\ outcome \in PushOutcomes
  /\ hist' = [hist EXCEPT ![p].stages = Stage(p, "keyPush"),
                          ![p].pushed = sendSSHPublicKey(outcome)]
  /\ pc' = [pc EXCEPT ![p] = AfterPush(sendSSHPublicKey(outcome))]
  /\ UNCHANGED <<env, now, fs, cfg, lockHeld, timer, sig>>

\* main returns: the deferred function removes the lock file by its name
Return(p, h) ==
  /\ LET path == LockFileName(cfg[p]) IN
     IF lockHeld[p]
     THEN /\ fs' = [fs EXCEPT ![path] = NoFile]
          /\ hist' = NoteRemoved([h EXCEPT ![p] = Final(@, "done")], p, path)
     ELSE /\ fs' = fs
          /\ hist' = [h EXCEPT ![p] = Final(@, "done")]
  /\ Gone(p, "done")

Endpoint(region) == "https://ssm." \o region \o ".amazonaws.com"

\* startSSMSessionWithPlugin() up to cmd.Run: the broker call or the search
\* for the helper fails (main logs it and returns), or the helper starts
SessionOutcomes == {"brokerError", "noHelper", "ok"}

\* (mutant) the helper is run with whatever there is after an error
startSSMSessionWithPluginAnyway(outcome) ==
  [launched |-> TRUE, err |-> IF outcome = "ok" THEN "nil" ELSE "BootstrapError"]

\* what startSSMSessionWithPlugin() returns: an error when StartSession fails
\* or no helper is found, nil once cmd.Run was called
startSSMSessionWithPlugin(outcome) ==
  IF outcome = "ok" THEN [launched |-> TRUE, err |-> "nil"]
  ELSE [launched |-> FALSE, err |-> "BootstrapError"]

StartSession(p, outcome) ==
  /\ pc[p] = "session"
  /\ outcome \in SessionOutcomes
  /\ LET r == startSSMSessionWithPlugin(outcome)
         h == [hist EXCEPT ![p].stages = Stage(p, "bootstrap"),
                           ![p].bootstraps = @ + 1,
                           ![p].result = r.err] IN
     IF r.launched
     THEN /\ hist' = [h EXCEPT ![p].args = [target |-> cfg[p].InstanceID,
                                            region |-> cfg[p].Region,
                                            profile |-> cfg[p].AwsProfile,
                                            endpoint |-> Endpoint(cfg[p].Region)]]
          /\ pc' = [pc EXCEPT ![p] = "helper"]
          /\ UNCHANGED <<fs, cfg, lockHeld, timer, sig>>
     ELSE Return(p, h)
  /\ UNCHANGED <<env, now>>

\* cmd.Run returns (whatever the helper's exit status), main returns
HelperExit(p) ==
  /\ pc[p] = "helper"
  /\ Return(p, hist)
  /\ UNCHANGED <<env, now>>

\* (mutant) the goroutine closes the file and leaves it in place
TimerFireKeepsFile(p) ==
  /\ Alive(p)
  /\ timer[p] >= 0
  /\ now >= timer[p]
  /\ timer' = [timer EXCEPT ![p] = -1]
  /\ UNCHANGED <<env, now, fs, pc, cfg, lockHeld, sig, hist>>

\* the goroutine of main: after its sleep it removes the lock file by name
TimerFire(p) ==
  /\ Alive(p)
  /\ timer[p] >= 0
  /\ now >= timer[p]
  /\ LET path == LockFileName(cfg[p]) IN
     /\ fs' = [fs EXCEPT ![path] = NoFile]
     /\ hist' = NoteRemoved(hist, p, path)
  /\ timer' = [timer EXCEPT ![p] = -1]
  /\ UNCHANGED <<env, now, pc, cfg, lockHeld, sig>>

\* a signal is sent to the process: signal.Notify passes it on to the
\* channel of shutdown() without blocking, so a signal that finds the one
\* place of the channel taken is lost
Signal(p, s) ==
  /\ Alive(p)
  /\ s \in env.signals
  /\ IF sig[p] = NoSignal
     THEN /\ sig' = [sig EXCEPT ![p] = s]
          /\ hist' = hist
     ELSE /\ s \in Fatal /\ sig[p] \notin Fatal /\ ~hist[p].lost
          /\ sig' = sig
          /\ hist' = [hist EXCEPT ![p].lost = TRUE]
  /\ UNCHANGED <<env, now, fs, pc, cfg, lockHeld, timer>>

\* shutdown(): the goroutine receives SIGHUP, logs it and receives again
IgnoreHup(p) ==
  /\ Alive(p)
  /\ sig[p] = "SIGHUP"
  /\ sig' = [sig EXCEPT ![p] = NoSignal]
  /\ UNCHANGED <<env, now, fs, pc, cfg, lockHeld, timer, hist>>

\* shutdown(): the goroutine receives SIGINT or SIGTERM and ends the process
\* with os.Exit(0); nothing deferred runs
Kill(p) ==
  /\ Alive(p)
  /\ sig[p] \in Fatal
  /\ Gone(p, "killed")
  /\ hist' = [hist EXCEPT ![p] = Final(@, "killed")]
  /\ UNCHANGED <<env, now, fs>>

\* where main waits: the calls to the directory, key-injection and broker
\* services and the helper's run; the file operations between them take no
\* time on the clock's scale
Blocking == {"resolve", "push", "session", "helper"}

\* time passes
Tick(t) ==
  /\ t \in env.instants
  /\ t > now
  /\ \A p \in Procs : Alive(p) => pc[p] \in Blocking
  /\ now' = t
  /\ UNCHANGED <<env, fs, pc, cfg, lockHeld, timer, sig, hist>>

(***************************************************************************)
(* Initial states: the world, and the directory earlier invocations left.  *)
(***************************************************************************)
World(ks, is, ts, ss) ==
  [keys |-> ks, instances |-> is, instants |-> ts, signals |-> ss]

\* the cache file an earlier invocation for k wrote age seconds ago when the
\* directory service listed instance i
LeftCache(k, i, age) ==
  LET c == getInstanceDetails([ZeroConfig EXCEPT !.AwsProfile = k.AwsProfile,
                                                 !.InstanceName = k.InstanceName,
                                                 !.InstanceUser = k.InstanceUser],
                              Reply(TRUE, <<i>>)).cfg IN
  File(0 - age, JsonContent(Marshal(c), MarshalLen(c)), 0, KeyOf(k), IdentityOf(c))

\* the lock file an earlier invocation for k created age seconds ago and,
\* ended by a signal, left behind
LeftLock(k, age) == File(0 - age, EmptyContent, 0, KeyOf(k), NoIdentity)

EmptyDir == [path \in Paths |-> NoFile]

\* a good cache file and a lock file
LockDir(age) ==
  [EmptyDir EXCEPT ![CacheFileName(K1)] = LeftCache(K1, I1, 3600),
                   ![LockFileName(K1)] = LeftLock(K1, age)]

\* a cache file about to expire
CacheDirs ==
  { [EmptyDir EXCEPT ![CacheFileName(K1)] = LeftCache(K1, I1, age)] :
      age \in {CacheTTL - 1, CacheTTL} }

\* one command line over an empty directory, the instance replaced between
\* two replies; over a cache file about to expire; over a fresh lock file;
\* over a stale lock file, with signals sent;
\* two command lines with the same file names, and two with different file
\* names, over an empty directory
Scenarios ==
  { <<World({K1}, {I1, I2}, {0, LockTimeout, LockTimeout + 1}, {}), EmptyDir>> }
    \cup { <<World({K1}, {I2}, {0, 1}, {}), d>> : d \in CacheDirs }
    \cup { <<World({K1}, {I1}, {0, LockTimeout}, {}), LockDir(5)>>,
           <<World({K1}, {I1}, {0}, Signals), LockDir(70)>> }
    \cup { <<World({K1, K2}, {I1}, {0}, {}), EmptyDir>>,
           <<World({K1, K3}, {I1}, {0}, {}), EmptyDir>> }

Init ==
  /\ \E sc \in Scenarios : env = sc[1] /\ fs = sc[2]
  /\ now = 0
  /\ pc = [p \in Procs |-> "idle"]
  /\ cfg = [p \in Procs |-> ZeroConfig]
  /\ lockHeld = [p \in Procs |-> FALSE]
  /\ timer = [p \in Procs |-> -1]
  /\ sig = [p \in Procs |-> NoSignal]
  /\ hist = [p \in Procs |-> ZeroHist]

Next ==
  \/ \E p \in Procs, k \in Keys : Launch(p, k)
  \/ \E p \in Procs, readOk \in BOOLEAN : LoadCache(p, readOk)
  \/ \E p \in Procs, reply \in DirectoryReplies(Instances) : Resolve(p, reply)
  \/ \E p \in Procs : SaveOpen(p)
  \/ \E p \in Procs : SaveWrite(p)
  \/ \E p \in Procs : LockStat(p)
  \/ \E p \in Procs : LockRemove(p)
  \/ \E p \in Procs : LockCreate(p)
  \/ \E p \in Procs, o \in PushOutcomes : SendSSHPublicKey(p, o)
  \/ \E p \in Procs, o \in SessionOutcomes : StartSession(p, o)
  \/ \E p \in Procs : HelperExit(p)
  \/ \E p \in Procs : TimerFire(p)
  \/ \E p \in Procs, s \in Signals : Signal(p, s)
  \/ \E p \in Procs : IgnoreHup(p)
  \/ \E p \in Procs : Kill(p)
  \/ \E t \in Instants : Tick(t)

Spec == Init /\ [][Next]_vars

(***************************************************************************)
(* The key-push lock.                                                      *)
(***************************************************************************)
Dist(a, b) == IF a > b THEN a - b ELSE b - a

SameTriple(p, q) == hist[p].key = hist[q].key

\* p created the lock file and neither its deferred release nor its
\* goroutine has run; it did so at timer[p] - LockTimeout
Holding(p) == Alive(p) /\ lockHeld[p] /\ timer[p] >= 0

Tried(p) == Alive(p) /\ hist[p].lock # ""

\* C1: of two processes that try to take the lock of one triple within one
\* second of each other, the token absent or stale before, exactly one
\* acquires it: never both.
C1_ExactlyOneAcquires ==
  \A p \in Procs, q \in Procs :
    (/\ p # q
     /\ SameTriple(p, q)
     /\ Holding(p) /\ Holding(q)
     /\ hist[p].statSaw \in {"absent", ">"}
     /\ hist[q].statSaw \in {"absent", ">"})
    => Dist(timer[p], timer[q]) > 1

\* C2: a process that has acquired the token at t and not released it is the
\* only one to acquire the token of its triple before t + 50 s.
C2_OnePusherPerWindow ==
  \A p \in Procs, q \in Procs :
    (p # q /\ SameTriple(p, q) /\ Holding(p) /\ Holding(q))
    => Dist(timer[p], timer[q]) >= LockTimeout

\* C3: different triples have different cache and lock file names, so no
\* process loads the cache another triple wrote or finds the lock held by
\* the token of another triple.
C3_TriplesApart ==
  /\ \A p \in Procs, q \in Procs :
       (Alive(p) /\ Alive(q) /\ hist[p].key # hist[q].key)
       => /\ CacheFileName(cfg[p]) # CacheFileName(cfg[q])
          /\ LockFileName(cfg[p]) # LockFileName(cfg[q])
  /\ \A p \in Procs :
       /\ (Alive(p) /\ hist[p].loaded) => hist[p].found.key = hist[p].key
       /\ (Alive(p) /\ hist[p].lock = "AlreadyHeld") => hist[p].blocker = hist[p].key

\* C4: a process whose os.Stat finds a token older than 50 seconds, no other
\* process creating the lock file before its os.OpenFile, removes the token,
\* creates its own and goes on to push the key.
C4_StaleReclaimed ==
  \A p \in Procs :
    (Alive(p) /\ hist[p].statSaw = ">" /\ ~hist[p].otherCreated)
    => /\ pc[p] = "lockCreate" => ~fs[LockFileName(cfg[p])].exists
       /\ pc[p] # "lockCreate" /\ pc[p] # "lockRemove"
            => /\ hist[p].lock = "Acquired"
               /\ (pc[p] = "push" \/ hist[p].stages[Len(hist[p].stages)] \in
                                        {"keyPush", "bootstrap"})
               /\ \E i \in 1..Len(hist[p].stages) : pc[p] = "push" \/ hist[p].stages[i] = "keyPush"

C4_Witness ==
  \E p \in Procs, q \in Procs :
    /\ p # q /\ Holding(q) /\ SameTriple(p, q)
    /\ hist[p].statSaw = ">" /\ ~hist[p].otherCreated
    /\ hist[p].lock = "Acquired" /\ pc[p] = "session"

\* C5 as stated: a process whose os.Stat finds a token of at most 50 seconds
\* finds the lock already held: its os.OpenFile changes no file and takes
\* main to the session, past the key push.
C5_FreshMeansHeld ==
  [][\A p \in Procs :
       (/\ pc[p] = "lockCreate" /\ pc'[p] # "lockCreate" /\ pc'[p] # "killed"
        /\ hist[p].statSaw = "<=")
       => /\ hist'[p].lock = "AlreadyHeld"
          /\ fs' = fs
          /\ pc'[p] = "session"
          /\ ~lockHeld'[p] /\ timer'[p] = -1]_vars

\* C5, amended: the same, when no other process has removed the lock file
\* between the os.Stat and the os.OpenFile.
C5_FreshStillThere ==
  [][\A p \in Procs :
       (/\ pc[p] = "lockCreate" /\ pc'[p] # "lockCreate" /\ pc'[p] # "killed"
        /\ hist[p].statSaw = "<=" /\ ~hist[p].otherRemoved)
       => /\ hist'[p].lock = "AlreadyHeld"
          /\ fs' = fs
          /\ pc'[p] = "session"
          /\ ~lockHeld'[p] /\ timer'[p] = -1]_vars

C5_Witness ==
  \E p \in Procs :
    /\ hist[p].statSaw = "<=" /\ ~hist[p].otherRemoved
    /\ hist[p].lock = "AlreadyHeld" /\ pc[p] = "helper"
    /\ fs[LockFileName(cfg[p])].exists

(***************************************************************************)
(* The identity cache.                                                     *)
(***************************************************************************)
Ran(p, stage) == \E i \in 1..Len(hist[p].stages) : hist[p].stages[i] = stage

\* loadCache found a file holding one whole document and could read it
FoundRecord(p) ==
  /\ Alive(p)
  /\ hist[p].found.exists
  /\ hist[p].found.content.kind = "json"
  /\ hist[p].readOk

\* C6: a process that finds a record younger than 24 hours holds exactly the
\* identity the record's writer held when it saved it, and the command line
\* it was started with.
C6_RoundTrip ==
  \A p \in Procs :
    (FoundRecord(p) /\ hist[p].foundAge = "<")
    => /\ hist[p].loaded
       /\ IdentityOf(cfg[p]) = hist[p].found.wrote
       /\ KeyOf(cfg[p]) = hist[p].key

C6_Witness ==
  \E p \in Procs :
    /\ FoundRecord(p) /\ hist[p].foundAge = "<"
    /\ hist[p].found.by \in Procs \ {p}
    /\ cfg[p].InstanceID = I2.InstanceId
    /\ pc[p] = "helper"

\* C7 as stated: a cache file of 24 hours or more is as good as none: no
\* identity is taken from it and the instance is resolved.
C7_ExpiredFromTTL ==
  \A p \in Procs :
    (Alive(p) /\ hist[p].foundAge \in {"=", ">"})
    => /\ ~hist[p].loaded
       /\ pc[p] = "resolve" \/ hist[p].resolves = 1

\* C7, amended: a cache file of more than 24 hours is as good as none.
C7_ExpiredPastTTL ==
  \A p \in Procs :
    (Alive(p) /\ hist[p].foundAge = ">")
    => /\ ~hist[p].loaded
       /\ pc[p] = "resolve" \/ hist[p].resolves = 1

C7_Witness ==
  \E p \in Procs :
    /\ FoundRecord(p) /\ hist[p].foundAge = ">"
    /\ hist[p].resolves = 1 /\ cfg[p].InstanceID # ""

\* C8: a process that took its identity from the cache calls the directory
\* service never and writes the cache file never: the file is as the process
\* found it unless another process wrote it.
C8_HitLeavesCache ==
  \A p \in Procs :
    (Alive(p) /\ hist[p].loaded)
    => /\ hist[p].resolves = 0
       /\ pc[p] \notin {"resolve", "saveOpen", "saveWrite"}
       /\ ~Ran(p, "resolve") /\ ~Ran(p, "cacheWrite")
       /\ LET f == fs[CacheFileName(cfg[p])] IN f = hist[p].found \/ f.by # p

C8_Witness ==
  \E p \in Procs :
    /\ hist[p].loaded /\ pc[p] = "helper"
    /\ fs[CacheFileName(cfg[p])] = hist[p].found
    /\ now - hist[p].found.mtime > 3600

\* the stages of one run, in the order of main
Pipelines ==
  { <<"cacheRead", "lockAcquire", "bootstrap">>,
    <<"cacheRead", "lockAcquire", "keyPush", "bootstrap">>,
    <<"cacheRead", "resolve", "cacheWrite", "lockAcquire", "bootstrap">>,
    <<"cacheRead", "resolve", "cacheWrite", "lockAcquire", "keyPush", "bootstrap">> }

IsPrefix(a, b) == Len(a) <= Len(b) /\ a = SubSeq(b, 1, Len(a))

\* the stage main is about to run
Upcoming(p) ==
  CASE pc[p] = "loadCache" -> "cacheRead"
    [] pc[p] = "resolve" -> "resolve"
    [] pc[p] = "saveOpen" -> "cacheWrite"
    [] pc[p] = "lockStat" -> "lockAcquire"
    [] pc[p] = "push" -> "keyPush"
    [] pc[p] = "session" -> "bootstrap"
    [] OTHER -> ""

\* C9: the stages of a process run one after the other in the order cache
\* read, resolution, cache write, lock acquisition, key push, bootstrap, each
\* at most once, resolution and cache write only together and after a miss.
C9_Pipeline ==
  \A p \in Procs :
    Alive(p) =>
      LET done == hist[p].stages
          next == IF Upcoming(p) = "" THEN done ELSE Append(done, Upcoming(p)) IN
      /\ \E run \in Pipelines : IsPrefix(next, run)
      /\ Ran(p, "resolve") \/ pc[p] = "resolve" <=> Len(done) >= 1 /\ ~hist[p].loaded

C9_Witness ==
  \E p \in Procs :
    hist[p].stages =
      <<"cacheRead", "resolve", "cacheWrite", "lockAcquire", "keyPush", "bootstrap">>

\* az is region followed by one more character
OneLonger(region, az) ==
  Len(az) = Len(region) + 1 /\ SubSeq(az, 1, Len(region)) = region

\* C10: the region a process holds with an instance id, the region of every
\* document in a cache file and the region the helper is started with are
\* the availability zone less its last character.
C10_RegionFromZone ==
  /\ \A p \in Procs :
       (Alive(p) /\ cfg[p].InstanceID # "")
       => /\ OneLonger(cfg[p].Region, cfg[p].InstanceAZ)
          /\ pc[p] = "helper"
               => /\ hist[p].args.region = cfg[p].Region
                  /\ hist[p].args.target = cfg[p].InstanceID
                  /\ hist[p].args.endpoint =
                       "https://ssm." \o cfg[p].Region \o ".amazonaws.com"
  /\ \A p \in Procs : pc[p] \in {"lockStat", "helper"} => cfg[p].InstanceID # ""
  /\ \A path \in Paths :
       (fs[path].exists /\ fs[path].content.kind = "json")
       => OneLonger(fs[path].content.doc.region, fs[path].content.doc.instance_az)

C10_Witness ==
  \E p \in Procs :
    /\ pc[p] = "helper" /\ hist[p].loaded
    /\ hist[p].found.by \in Procs \ {p}
    /\ hist[p].args.region = "eu-west-3"

\* two writers have left a cache file that does not parse
MixedCacheFile == \E path \in Paths : fs[path].content.kind = "garbage"

(***************************************************************************)
(* Errors.                                                                 *)
(***************************************************************************)
\* C11: a process whose resolution fails ends there: the step changes no
\* file, the process has run nothing but the cache read and the resolution
\* and runs nothing after; no file is ever its work; a process that then
\* loads the cache as the failed one found it resolves again; and no process
\* is at the bootstrap without an instance id.
C11_FailedResolveAborts ==
  /\ [](\A p \in Procs :
          /\ pc[p] = "exited" =>
                /\ \A path \in Paths : fs[path].by # p
                /\ hist[p].result = ""
          /\ pc[p] \in {"session", "helper"} => cfg[p].InstanceID # "")
  /\ [][\A p \in Procs :
          /\ (pc'[p] = "exited" /\ pc[p] # "exited")
               => /\ pc[p] = "resolve"
                  /\ hist[p].stages = <<"cacheRead">>
                  /\ hist[p].lock = "" /\ hist[p].pushed = ""
                  /\ fs' = fs
          /\ pc[p] = "exited" => pc'[p] = "exited"
          /\ \A q \in Procs :
               (/\ pc[p] = "exited" /\ hist[p].key = KeyOf(cfg[q])
                /\ pc[q] = "loadCache" /\ pc'[q] \notin {"loadCache", "killed"}
                /\ fs[CacheFileName(cfg[q])] = hist[p].found /\ hist[p].readOk)
               => /\ pc'[q] = "resolve"
                  /\ IdentityOf(cfg'[q]) = NoIdentity]_vars

C11_Witness ==
  \E p \in Procs, q \in Procs :
    /\ pc[p] = "exited" /\ hist[p].key = hist[q].key
    /\ hist[q].found = hist[p].found /\ hist[p].found.exists
    /\ hist[q].resolves = 1 /\ pc[q] = "helper"

\* loadCache found no file, a file older than 24 hours, a file it could not
\* read or a file that does not parse
Missed(p) ==
  /\ Alive(p) /\ Ran(p, "cacheRead")
  /\ \/ ~hist[p].found.exists
     \/ hist[p].foundAge = ">"
     \/ ~hist[p].readOk
     \/ hist[p].found.content.kind # "json"

\* the identity c holds is that of instance i
IsIdentityOf(c, i) ==
  /\ c.InstanceID = i.InstanceId
  /\ c.InstanceAZ = i.AvailabilityZone
  /\ OneLonger(c.Region, c.InstanceAZ)

MissedUnreadable ==
  \E p \in Procs : Missed(p) /\ ~hist[p].readOk /\ hist[p].foundAge = "<" /\ pc[p] = "helper"

MissedMalformed ==
  \E p \in Procs : /\ Missed(p) /\ hist[p].readOk /\ hist[p].found.exists
                    /\ hist[p].found.content.kind # "json" /\ pc[p] = "helper"

MissedAbsent ==
  \E p \in Procs : Missed(p) /\ ~hist[p].found.exists /\ pc[p] = "helper"

\* C13: a process that has acquired the lock goes from the key push to the
\* bootstrap whatever sendSSHPublicKey returned, and main returns only out
\* of the bootstrap, which has then run once.
C13_PushFailureGoesOn ==
  /\ [](\A p \in Procs :
          (Alive(p) /\ hist[p].lock = "Acquired")
          => /\ pc[p] = "push" => hist[p].pushed = "" /\ hist[p].bootstraps = 0
             /\ pc[p] = "session"
                  => hist[p].pushed \in {"nil", "error"} /\ hist[p].bootstraps = 0
             /\ pc[p] = "helper"
                  => /\ hist[p].pushed \in {"nil", "error"}
                     /\ hist[p].bootstraps = 1
                     /\ hist[p].stages[Len(hist[p].stages) - 1] = "keyPush"
                     /\ hist[p].stages[Len(hist[p].stages)] = "bootstrap")
  /\ [][\A p \in Procs :
          /\ (pc[p] = "push" /\ pc'[p] \notin {"push", "killed"})
               => pc'[p] = "session" /\ hist'[p].pushed \in {"nil", "error"}
          /\ (pc'[p] = "done" /\ pc[p] # "done")
               => \/ pc[p] = "session" /\ hist[p].bootstraps = 0
                  \/ pc[p] = "helper" /\ hist[p].bootstraps = 1
          /\ pc'[p] = "exited" => pc[p] \in {"resolve", "exited"}]_vars

C13_Witness ==
  \E p \in Procs :
    /\ hist[p].lock = "Acquired" /\ hist[p].pushed = "error"
    /\ pc[p] = "helper" /\ hist[p].bootstraps = 1

\* C14: when the StartSession call fails or no helper is found,
\* startSSMSessionWithPlugin returns an error and has not run the helper:
\* the bootstrap that returns an error takes main to its end, not to the
\* helper, and a process is in the helper only with a bootstrap that has
\* returned none.
C14_BootstrapErrorEnds ==
  /\ [](/\ \A o \in {"brokerError", "noHelper"} :
            /\ ~startSSMSessionWithPlugin(o).launched
            /\ startSSMSessionWithPlugin(o).err = "BootstrapError"
        /\ \A p \in Procs :
            /\ pc[p] = "helper" => hist[p].result = "nil" /\ hist[p].args # NoArgs
            /\ hist[p].result = "BootstrapError"
                 => pc[p] = "done" /\ hist[p].args = NoArgs)
  /\ [][\A p \in Procs :
          (pc[p] = "session" /\ pc'[p] \notin {"session", "killed"})
          => \/ /\ hist'[p].result = "BootstrapError"
                /\ pc'[p] = "done"
             \/ /\ hist'[p].result = "nil"
                /\ pc'[p] = "helper"]_vars

C14_Witness ==
  \E p \in Procs, q \in Procs :
    /\ pc[p] = "done" /\ hist[p].result = "BootstrapError"
    /\ pc[q] = "helper"

(***************************************************************************)
(* Release of the lock.                                                    *)
(***************************************************************************)
\* the lock file is there and p created it
OwnToken(p) ==
  LET f == fs[LockFileName(cfg[p])] IN f.exists /\ f.by = p

\* C15: the token a process created is gone once its key push has returned:
\* it is not there while the helper runs.
C15_ReleasedAfterPush ==
  \A p \in Procs :
    (pc[p] = "helper" /\ hist[p].lock = "Acquired") => ~OwnToken(p)

\* C16: when the deferred release of a process runs (main returns) or its
\* goroutine runs, a lock file that another process has created stays as it
\* is.
C16_ReleaseOnlyOwn ==
  [][\A p \in Procs :
       (\/ pc'[p] = "done" /\ pc[p] # "done"
        \/ timer[p] >= 0 /\ timer'[p] = -1 /\ pc'[p] = pc[p])
       => \A k \in Keys :
            LET path == LockFileName(k) IN
            (fs[path].exists /\ fs[path].by # p) => fs'[path] = fs[path]]_vars

\* C17: when os.OpenFile tells a process that the lock is held, the process
\* that created the lock file, if it is still running, is in its key push or
\* has come out of it without an error.
C17_SkipMeansKeyPushed ==
  [][\A p \in Procs :
       (pc[p] = "lockCreate" /\ hist'[p].lock = "AlreadyHeld")
       => LET f == fs[LockFileName(cfg[p])] IN
          (f.by \in Procs /\ Alive(f.by))
          => pc[f.by] = "push" \/ hist[f.by].pushed = "nil"]_vars

\* C18 as stated: the token a running process created is never older than
\* 50 seconds.
C18_NeverOlderThanTimeout ==
  \A p \in Procs :
    (Alive(p) /\ OwnToken(p)) => Since(fs[LockFileName(cfg[p])].mtime) <= LockTimeout

\* the goroutine of p runs
Fires(p) == timer[p] >= 0 /\ timer'[p] = -1 /\ pc'[p] = pc[p]

\* C18, amended: the goroutine of a running holder runs when 50 seconds or
\* more have passed since the acquisition, wherever main is, and leaves no
\* lock file; the token a running process created is there only as long as
\* its goroutine has not run, so it is older than 50 seconds only while the
\* goroutine is due.
C18_TimerRemoves ==
  /\ [](\A p \in Procs :
          (Alive(p) /\ OwnToken(p))
          => /\ timer[p] = fs[LockFileName(cfg[p])].mtime + LockTimeout
             /\ Since(fs[LockFileName(cfg[p])].mtime) > LockTimeout => now > timer[p])
  /\ [][\A p \in Procs :
          Fires(p)
          => /\ now >= timer[p]
             /\ pc[p] \in {"push", "session", "helper"}
             /\ lockHeld'[p]
             /\ ~fs'[LockFileName(cfg[p])].exists]_vars

\* the goroutine of p has run, q has acquired since and pushed, p is still
\* in its session
C18_Witness ==
  \E p \in Procs, q \in Procs :
    /\ p # q /\ SameTriple(p, q)
    /\ pc[p] = "helper" /\ hist[p].lock = "Acquired" /\ timer[p] = -1
    /\ hist[q].lock = "Acquired" /\ hist[q].pushed = "nil" /\ OwnToken(q)
    /\ timer[q] >= 2 * LockTimeout

(***************************************************************************)
(* Signals.                                                                *)
(***************************************************************************)
\* receiving a SIGHUP changes nothing but the channel
HupIgnored ==
  [][\A p \in Procs :
       (sig[p] = "SIGHUP" /\ sig'[p] # "SIGHUP" /\ pc'[p] = pc[p])
       => /\ sig'[p] = NoSignal
          /\ UNCHANGED <<fs, pc, cfg, lockHeld, timer, hist>>]_vars

\* every SIGINT and SIGTERM sent to a running process reaches shutdown()
FatalSignalEnds == [](\A p \in Procs : ~hist[p].lost)

\* the process ends without unwinding: the files stay as they are
KilledLeavesFiles ==
  [][\A p \in Procs : (pc'[p] = "killed" /\ pc[p] # "killed") => fs' = fs]_vars

\* the lock file of a process that was ended by a signal goes only when a
\* process that found it older than 50 seconds removes it
LeftTokenReclaimedOnly ==
  [][\A k \in Keys :
       LET path == LockFileName(k) IN
       (/\ fs[path].exists /\ ~fs'[path].exists
        /\ fs[path].by \in Procs /\ pc[fs[path].by] = "killed")
       => \E p \in Procs : /\ pc[p] = "lockRemove" /\ pc'[p] = "lockCreate"
                            /\ hist[p].statSaw = ">"]_vars

\* C19: a SIGHUP is ignored wherever main is; the first SIGINT or SIGTERM
\* ends the process wherever main is, without unwinding, and the lock file
\* it leaves goes only by the stale reclaim of a later process.
C19_Signals ==
  /\ HupIgnored
  /\ FatalSignalEnds
  /\ KilledLeavesFiles
  /\ LeftTokenReclaimedOnly

====
